---- MODULE Spec2Model ----
(***************************************************************************)
(* flow_tools: reconciliation of gerrit changes with jira issues.          *)
(*                                                                         *)
(* The model follows update_issues_from_review (integrations.py) and the   *)
(* two commands that call it (__main__.py), statement group by statement   *)
(* group, with the three tables of orm.py as state.                        *)
(*                                                                         *)
(* Python strings that the code splits or strips are sequences of atoms:   *)
(* the separators ":", ",", "-", "->" and " " are atoms of their own and   *)
(* every other atom is a separator-free piece of text.  A string that is   *)
(* only compared (a status name, a change id) is a TLA+ string; Str(a) is  *)
(* its one-atom sequence.                                                  *)
(***************************************************************************)
EXTENDS Integers, Sequences, FiniteSets, TLC

\* ------------------------------------------------------------------ bounds
\* number of command invocations in a behaviour
MaxRuns == 2
\* number of status changes made in gerrit by its users in a behaviour
MaxEnv == 1

\* ------------------------------------------------- python string builtins
Str(a) == <<a>>

\* `a in s`
Contains(s, a) == \E i \in 1..Len(s) : s[i] = a

\* s.find(a) + 1, 0 when absent
Find(s, a) == IF Contains(s, a)
              THEN CHOOSE i \in 1..Len(s) :
                     s[i] = a /\ \A j \in 1..(i - 1) : s[j] # a
              ELSE 0

\* s.split(sep, 1)
Split1(s, sep) == IF Contains(s, sep)
                  THEN << SubSeq(s, 1, Find(s, sep) - 1),
                          SubSeq(s, Find(s, sep) + 1, Len(s)) >>
                  ELSE << s >>

\* s.split(sep)
RECURSIVE Split(_, _)
Split(s, sep) == IF Contains(s, sep)
                 THEN << SubSeq(s, 1, Find(s, sep) - 1) >>
                      \o Split(SubSeq(s, Find(s, sep) + 1, Len(s)), sep)
                 ELSE << s >>

\* s.strip()
RECURSIVE Strip(_)
Strip(s) == IF s # << >> /\ s[1] = " " THEN Strip(Tail(s))
            ELSE IF s # << >> /\ s[Len(s)] = " "
                 THEN Strip(SubSeq(s, 1, Len(s) - 1))
                 ELSE s

\* d.get(k, default) for a dict modelled as a function
Get(d, k, default) == IF k \in DOMAIN d THEN d[k] ELSE default

\* the elements of a sequence
Range(s) == { s[i] : i \in 1..Len(s) }

\* ---------------------------------------------------------- configuration
\* config.gerrit_jira.tag_map
tag_map == [ Closes |-> "Resolved", Resolves |-> "Closed" ]

\* config.jira.nominal_flow: project prefix -> state -> next states
nominal_flow ==
  ( Str("P") :> ( "Open"        :> << "In Progress", "In Review" >> @@
                  "In Progress" :> << "In Review" >> @@
                  "In Review"   :> << "Resolved", "Closed" >> @@
                  "Resolved"    :> << "Closed" >> ) )

\* datetime.timedelta(weeks=w), in clock ticks
weeks == 1
timedelta(w) == w * 8

\* ------------------------------------------------------------ environment
\* the gerrit changes of the project and the order gerrit lists ties in
Changes == { "I1", "I2" }
ChangeRank == [ I1 |-> 1, I2 |-> 2 ]
Statuses == { "NEW", "DRAFT", "MERGED", "ABANDONED" }

\* the moves gerrit offers its users: publish a draft, submit, abandon,
\* restore
GerritMoves == { << "DRAFT", "NEW" >>, << "NEW", "MERGED" >>,
                 << "NEW", "ABANDONED" >>, << "ABANDONED", "NEW" >> }

\* the page sizes the gerrit server may be configured with
PageSizes == { 1, 2 }

\* issue keys named in commit messages
P1 == << "P", "-", "1" >>
P9 == << "P", "-", "9" >>
Q1 == << "Q", "-", "1" >>

\* the commit message of the current revision of each change, by line
Message ==
  [ I1 |-> << << "Fix", " ", "the", " ", "thing" >>,
              << "Closes", ":", " " >> \o P1 >>,
    I2 |-> << << "Resolves", ":", " " >> \o P9 \o << ",", " " >> \o P1,
              << "Closes", ":" >> \o Q1,
              << "closes", ":", " " >> \o P9 >> ]

\* the issues the jira instance knows, and its workflow: the transitions it
\* offers from each status (id, display name, destination)
KnownIssues == { P1, Q1 }
IssueStates == { "Open", "In Progress", "In Review", "Resolved", "Closed" }
Workflow ==
  [ s \in IssueStates |->
      CASE s = "Open" ->
             << [ id |-> "11", name |-> << "Open", ":", " ", "In Progress" >>, to |-> "In Progress" ],
                [ id |-> "12", name |-> << "Open", " ", "->", " ", "In Review" >>, to |-> "In Review" ],
                [ id |-> "13", name |-> << "Open", ":", " ", "Closed" >>, to |-> "Closed" ] >>
        [] s = "In Progress" ->
             << [ id |-> "21", name |-> << "In Progress", " ", "->", " ", "In Review" >>, to |-> "In Review" ],
                [ id |-> "22", name |-> << "Stop", " ", "work" >>, to |-> "Open" ] >>
        [] s = "In Review" ->
             << [ id |-> "31", name |-> << "In Review", ":", "In Progress" >>, to |-> "In Progress" ],
                [ id |-> "32", name |-> << "In Review", ":", " ", "Resolved" >>, to |-> "Resolved" ],
                [ id |-> "33", name |-> << "In Review", "->", "Closed" >>, to |-> "Closed" ] >>
        [] s = "Resolved" ->
             << [ id |-> "41", name |-> << "Resolved", ":", " ", "In Review" >>, to |-> "In Review" ],
                [ id |-> "42", name |-> << "Resolved", " ", "->", " ", "Closed" >>, to |-> "Closed" ] >>
        [] OTHER ->
             << [ id |-> "51", name |-> << "Reopen" >>, to |-> "Open" ] >> ]

\* the resolutions a jira instance may be configured with (id, name)
ResolutionLists ==
  { << [ id |-> "1", name |-> "Fixed" ], [ id |-> "6", name |-> "Done" ] >>,
    << [ id |-> "1", name |-> "Fixed" ], [ id |-> "2", name |-> "Duplicate" ] >> }

\* invocations of update_issues_from_review that run at the same time
Workers == { "w1", "w2" }

\* ------------------------------------------------------------------ state
VARIABLES
  \* gerrit
  ch_status,        \* change id -> status
  ch_updated,       \* change id -> second of its last update
  page_size,        \* changes per page of a query
  \* jira
  issue_status,     \* known issue key -> status name
  \* the database (committed rows, in rid order)
  gerrit_jira_map,  \* orm.GerritJira: [issue, changeid]
  gerrit_jira_log,  \* orm.GerritJiraTrans: [time, issue, from_status, to_status]
  poll_history,     \* orm.PollHistory: [period_start, period_end, status]
  \* the host
  now,              \* datetime.utcnow(), in ticks (two to the second)
  env_steps,        \* gerrit status changes so far
  \* the running command
  pc,               \* position in the command
  cmd,              \* "update" | "increment"
  dry_run,          \* args.dry_run
  start_time,       \* update_issues_from_review's start_time argument
  end_time,         \* update_issues_from_review's end_time argument
  record,           \* IncrementJiraFromGerrit's PollHistory object
  session,          \* gerrit_jira_map as the open sql session sees it
  offset,
  has_more_changes,
  response,         \* the page being processed
  idx,              \* index into response of the next change
  changeinfo,       \* the change being processed
  resolutions,      \* its (issue key, resolution) pairs
  ridx,             \* index into resolutions of the next pair
  raised,           \* the exception that ended the call, or "none"
  \* what the invocation did (reset when a command starts)
  calls,            \* jira calls that mutate an issue, in order
  outcomes,         \* how each (issue, change) pair ended
  processed,        \* the changes taken from the pages, with their status
  fetches,          \* the offsets queried
  map0,             \* gerrit_jira_map when the command started
  log0,             \* gerrit_jira_log when the command started
  poll0,            \* poll_history when the command started
  env0,             \* env_steps when the command started
  prev,             \* the command before this one, as it ended
  jira_res,         \* what jira_client.resolutions() answered
  \* invocations that share the database
  worker,           \* invocation -> its position in the loop over the pairs
  \* a function called alone
  frame             \* its arguments and locals, () while no such call runs

gerrit == << ch_status, ch_updated, page_size >>
tables == << gerrit_jira_map, gerrit_jira_log, poll_history >>
local  == << offset, has_more_changes, response, idx, changeinfo,
             resolutions, ridx >>
args   == << cmd, dry_run, start_time, end_time >>
hist   == << calls, outcomes, processed, fetches, map0, log0, poll0, env0,
             prev, jira_res >>
tools  == << frame >>
vars   == << gerrit, issue_status, tables, now, env_steps, pc, args, record,
             session, local, raised, hist, worker, tools >>

NoRecord == [ period_start |-> 0, period_end |-> 0, status |-> 1 ]
NoPrev   == [ ran |-> FALSE, dry |-> FALSE, start |-> 0, end |-> 0,
              env0 |-> 0, returned |-> FALSE, logged |-> 0 ]
NoChange == [ change_id |-> "", status |-> "", more |-> FALSE ]

\* --------------------------------------------------------- pure functions
None == "<None>"

\* datetime.strftime(GERRIT_TIME_FMT): the second a tick falls in
strftime(t) == t \div 2

\* mutation of meta_line: a Closes or Resolves line replaces the list
meta_line_overwrite(result, line) ==
  LET parts == Split1(line, ":") IN
  IF Len(parts) = 2
  THEN LET key    == parts[1]
           value  == parts[2]
           items  == Split(Strip(value), ",")
           issues == [ i \in 1..Len(items) |-> Strip(items[i]) ]
       IN IF key \in { Str("Feature-Branch"), Str("Base-Branch"),
                       Str("Relative-To-Branch"), Str("ChangeId") }
          THEN (key[1] :> Strip(value)) @@ result
          ELSE IF key \in { Str("Closes"), Str("Resolves") }
               THEN [ result EXCEPT ![key[1]] = issues ]
               ELSE result
  ELSE result

\* gerrit_util.get_message_meta, after the commit was fetched: one step of
\* the loop over the lines of the message
meta_line(result, line) ==
  LET parts == Split1(line, ":") IN
  IF Len(parts) = 2
  THEN LET key    == parts[1]
           value  == parts[2]
           items  == Split(Strip(value), ",")
           issues == [ i \in 1..Len(items) |-> Strip(items[i]) ]
       IN IF key \in { Str("Feature-Branch"), Str("Base-Branch"),
                       Str("Relative-To-Branch"), Str("ChangeId") }
          THEN (key[1] :> Strip(value)) @@ result
          ELSE IF key \in { Str("Closes"), Str("Resolves") }
               THEN [ result EXCEPT ![key[1]] = @ \o issues ]
               ELSE result
  ELSE result

RECURSIVE meta_lines(_, _)
meta_lines(result, lines) ==
  IF lines = << >> THEN result
  ELSE meta_lines(meta_line(result, Head(lines)), Tail(lines))

get_message_meta(message) ==
  meta_lines([ Closes |-> << >>, Resolves |-> << >> ], message)

\* mutation of has_separator: only the older format is known
has_separator_colon_only(name) == Contains(name, ":")

\* whether a transition's display name has one of the two separators
has_separator(name) == Contains(name, ":") \/ Contains(name, "->")

\* mutation of transition_tstate: the text before the separator is taken
transition_tstate_before(name) ==
  IF Contains(name, ":") THEN Strip(Split1(name, ":")[1])
  ELSE Strip(Split1(name, "->")[1])

\* the destination named by a transition's display name
transition_tstate(name) ==
  IF Contains(name, ":") THEN Strip(Split1(name, ":")[2])
  ELSE Strip(Split1(name, "->")[2])

\* jira_util.get_transition_to over the transitions jira offers: the loop
RECURSIVE transition_scan(_, _, _, _)
transition_scan(transitions, target_state, tid, available_states) ==
  IF transitions = << >> THEN << tid, available_states >>
  ELSE LET transition == Head(transitions) IN
       IF ~has_separator(transition.name)
       THEN transition_scan(Tail(transitions), target_state, tid,
                            available_states)
       ELSE LET tstate == transition_tstate(transition.name) IN
            transition_scan(Tail(transitions), target_state,
                            IF tstate = Str(target_state)
                            THEN transition.id ELSE tid,
                            Append(available_states, tstate))

get_transition_to(transitions, target_state) ==
  transition_scan(transitions, target_state, None, << >>)

\* mutation of is_nominal_transition: the start state is not looked at
is_nominal_transition_any_from(flow, from_state, to_state) ==
  \E s \in DOMAIN flow : to_state \in Range(flow[s])

\* jira_util.is_nominal_transition
is_nominal_transition(flow, from_state, to_state) ==
  to_state \in Range(Get(flow, from_state, << >>))

\* the (issue, resolution) pairs of a change, Closes before Resolves
make_resolutions(change_meta) ==
  [ i \in 1..Len(change_meta["Closes"]) |->
      << change_meta["Closes"][i], tag_map["Closes"] >> ]
  \o
  [ i \in 1..Len(change_meta["Resolves"]) |->
      << change_meta["Resolves"][i], tag_map["Resolves"] >> ]

\* mutation of goal_state_of: the DRAFT branch is missing
goal_state_of_no_draft(status, resolution) ==
  IF status = "MERGED" THEN resolution ELSE "In Review"

\* the goal state of a pair
goal_state_of(status, resolution) ==
  IF status = "MERGED" THEN resolution
  ELSE IF status = "DRAFT" THEN "In Progress"
       ELSE "In Review"

\* mutation of is_resolution_state: the try covers both paths
is_resolution_state_any(goal_state) == TRUE

\* goal_state in tag_map.values()
is_resolution_state(goal_state) ==
  \E k \in DOMAIN tag_map : tag_map[k] = goal_state

\* mutation of count_pair: the rows are filtered by the issue alone
count_pair_by_issue(table, issue_key, change_id) ==
  Cardinality({ i \in 1..Len(table) : table[i].issue = issue_key })

\* sql.query(orm.GerritJira).filter_by(issue=.., changeid=..).count()
count_pair(table, issue_key, change_id) ==
  Cardinality({ i \in 1..Len(table) :
                  table[i].issue = issue_key /\ table[i].changeid = change_id })

\* mutation of upsert: the row is added without the count() test
upsert_unchecked(table, issue_key, change_id) ==
  Append(table, [ issue |-> issue_key, changeid |-> change_id ])

\* the association upsert: the row is added when count() finds none
upsert(table, issue_key, change_id) ==
  IF count_pair(table, issue_key, change_id) = 0
  THEN Append(table, [ issue |-> issue_key, changeid |-> change_id ])
  ELSE table

\* mutation of count_issue: the rows are not counted beyond the first
count_issue_exists(table, issue_key) ==
  IF \E i \in 1..Len(table) : table[i].issue = issue_key THEN 1 ELSE 0

\* sql.query(orm.GerritJira).filter_by(issue=issue_key).count()
count_issue(table, issue_key) ==
  Cardinality({ i \in 1..Len(table) : table[i].issue = issue_key })

\* mutation of delete_change: the filter is left out
delete_change_unfiltered(table, change_id) == << >>

\* sql.query(orm.GerritJira).filter_by(changeid=..).delete()
delete_change(table, change_id) ==
  SelectSeq(table, LAMBDA row : row.changeid # change_id)

\* mutation of multiple_active: the comparison is off by one
multiple_active_above_two(table, issue_key) ==
  count_issue(table, issue_key) > 2

\* the multi-association guard
multiple_active(table, issue_key) == count_issue(table, issue_key) > 1

\* mutation of skip_dry_run: the flag is not looked at
skip_dry_run_never(flag) == FALSE

\* the dry-run guard
skip_dry_run(flag) == flag

\* mutation of last_success: the query lacks filter_by(status=0)
last_record(history, default) ==
  IF history = << >> THEN default
  ELSE history[Len(history)].period_end

\* mutation of last_success: the query filters on the wrong status
last_failure(history, default) ==
  LET bad == { i \in 1..Len(history) : history[i].status = -1 } IN
  IF bad = {} THEN default
  ELSE history[CHOOSE i \in bad : \A j \in bad : j <= i].period_end

\* mutation of last_success: the query orders by rid ascending
last_success_oldest(history, default) ==
  LET ok == { i \in 1..Len(history) : history[i].status = 0 } IN
  IF ok = {} THEN default
  ELSE history[CHOOSE i \in ok : \A j \in ok : i <= j].period_end

\* the PollHistory query of IncrementJiraFromGerrit: the period_end of the
\* status 0 record with the largest rid, or the default
last_success(history, default) ==
  LET ok == { i \in 1..Len(history) : history[i].status = 0 } IN
  IF ok = {} THEN default
  ELSE history[CHOOSE i \in ok : \A j \in ok : j <= i].period_end

\* mutation of record_status: the status is set before the call
record_status_set_early(returned) == 0

\* the status the PollHistory record is written with
record_status(returned) == IF returned THEN 0 ELSE -1

\* mutation of record_written: the record is added after the call, not in
\* a finally clause
record_written_after_return(flag, returned) == ~flag /\ returned

\* mutation of record_written: the finally clause lacks the dry-run test
record_written_always(flag, returned) == TRUE

\* whether the finally clause adds and commits the record
record_written(flag, returned) == ~flag

\* ----------------------------------------------------- gerrit's answers
\* the changes updated in [after, before], most recently updated first
query_result(after, before) ==
  LET hit == { c \in Changes : after <= ch_updated[c] /\ ch_updated[c] <= before }
      n   == Cardinality(hit)
  IN CHOOSE s \in [ 1..n -> hit ] :
       /\ \A i, j \in 1..n : i # j => s[i] # s[j]
       /\ \A i, j \in 1..n : i < j =>
            \/ ch_updated[s[i]] > ch_updated[s[j]]
            \/ /\ ch_updated[s[i]] = ch_updated[s[j]]
               /\ ChangeRank[s[i]] < ChangeRank[s[j]]

\* gerrit_util.get_changes_from_range: one page of the query, the last
\* element flagged when changes remain beyond it
get_changes_from_range(after, before, start) ==
  LET all  == query_result(after, before)
      last == IF start + page_size < Len(all) THEN start + page_size
              ELSE Len(all)
  IN [ i \in 1..(IF last > start THEN last - start ELSE 0) |->
         [ change_id |-> all[start + i],
           status    |-> ch_status[all[start + i]],
           more      |-> (start + i = last /\ last < Len(all)) ] ]

\* mutation of issue_lookup: an unknown key is answered like a new issue
issue_lookup_lenient(issue_key) ==
  IF issue_key \in KnownIssues THEN issue_status[issue_key] ELSE "Open"

\* jira_client.issue(issue_key, 'status'): the status name of the issue, or
\* None when jira answers with JIRAError
issue_lookup(issue_key) ==
  IF issue_key \in KnownIssues THEN issue_status[issue_key] ELSE None

\* mutation of find_resolution: the name is not compared
find_resolution_any_name(jira_resolutions, name) ==
  IF jira_resolutions = << >> THEN None
  ELSE jira_resolutions[Len(jira_resolutions)].id

\* the loop over jira_client.resolutions(): the id of the last resolution
\* with the name, or None
find_resolution(jira_resolutions, name) ==
  LET hits == { i \in 1..Len(jira_resolutions) :
                  jira_resolutions[i].name = name } IN
  IF hits = {} THEN None
  ELSE jira_resolutions[CHOOSE i \in hits : \A j \in hits : j <= i].id

\* mutation of more_changes: the flag of the last element is not read
more_changes_never(page) == FALSE

\* whether the page asks for another query: it is not empty and its last
\* element has _more_changes
more_changes(page) == Len(page) > 0 /\ page[Len(page)].more

\* ------------------------------------------------------------------- init
\* the state before the first command, with the PollHistory table that
\* earlier polls left
InitWith(history) ==
  /\ ch_status \in [ Changes -> Statuses ]
  /\ ch_updated = [ c \in Changes |-> 0 ]
  /\ page_size \in PageSizes
  /\ \E s \in { "Open", "In Review" } :
       issue_status = [ k \in KnownIssues |-> IF k = P1 THEN s ELSE "Open" ]
  /\ gerrit_jira_map = << >>
  /\ gerrit_jira_log = << >>
  /\ poll_history = history
  /\ now = 1
  /\ env_steps = 0
  /\ pc = "idle"
  /\ cmd = "none"
  /\ dry_run = FALSE
  /\ start_time = 0
  /\ end_time = 0
  /\ record = NoRecord
  /\ session = << >>
  /\ offset = 0
  /\ has_more_changes = FALSE
  /\ response = << >>
  /\ idx = 0
  /\ changeinfo = NoChange
  /\ resolutions = << >>
  /\ ridx = 0
  /\ raised = "none"
  /\ calls = << >>
  /\ outcomes = << >>
  /\ processed = << >>
  /\ fetches = << >>
  /\ map0 = << >>
  /\ log0 = << >>
  /\ poll0 = << >>
  /\ env0 = 0
  /\ prev = NoPrev
  /\ jira_res = << >>
  /\ worker = [ w \in Workers |-> [ pc |-> "count", idx |-> 1,
                                   raised |-> "none" ] ]

\* a new database
\* none of the functions called alone is under way
NoTools == frame = << >>

Init == InitWith(<< >>) /\ NoTools

\* the record of a poll that succeeded one tick before the initial state
EarlierPoll == [ period_start |-> 0 - timedelta(weeks), period_end |-> 0,
                 status |-> 0 ]

\* a new database, or one that an earlier successful poll wrote to
InitResume ==
  /\ \E history \in { << >>, << EarlierPoll >> } : InitWith(history)
  /\ NoTools

\* ---------------------------------------------------------------- gerrit
\* a user of gerrit moves a change to another status, between two commands
\* (what happened before the first command is in the initial statuses)
GerritUpdate(c, st) ==
  /\ UNCHANGED << worker, tools >>
  /\ pc = "done"
  /\ env_steps < MaxEnv
  /\ << ch_status[c], st >> \in GerritMoves
  /\ ch_status' = [ ch_status EXCEPT ![c] = st ]
  /\ ch_updated' = [ ch_updated EXCEPT ![c] = strftime(now) ]
  /\ env_steps' = env_steps + 1
  /\ UNCHANGED << page_size, issue_status, tables, now, pc, args, record,
                  session, local, raised, hist >>

\* --------------------------------------------------------------- commands
\* what every command does to the invocation's bookkeeping when it starts
Begin(c, d, st, et) ==
  /\ UNCHANGED << worker, tools >>
  /\ pc \in { "idle", "done" }
  /\ now <= MaxRuns
  /\ cmd' = c
  /\ dry_run' = d
  /\ start_time' = st
  /\ end_time' = et
  /\ session' = gerrit_jira_map
  /\ pc' = "resolutions"
  /\ offset' = 0
  /\ has_more_changes' = FALSE
  /\ response' = << >>
  /\ idx' = 0
  /\ changeinfo' = NoChange
  /\ resolutions' = << >>
  /\ ridx' = 0
  /\ raised' = "none"
  /\ calls' = << >>
  /\ outcomes' = << >>
  /\ processed' = << >>
  /\ fetches' = << >>
  /\ map0' = gerrit_jira_map
  /\ log0' = gerrit_jira_log
  /\ poll0' = poll_history
  /\ env0' = env_steps
  /\ prev' = IF pc = "done"
             THEN [ ran |-> TRUE, dry |-> dry_run, start |-> start_time,
                    end |-> end_time, env0 |-> env0,
                    returned |-> (raised = "none"),
                    logged |-> Len(gerrit_jira_log) - Len(log0) ]
             ELSE NoPrev
  /\ jira_res' = << >>
  /\ UNCHANGED << gerrit, issue_status, tables, env_steps >>

\* UpdateJiraFromGerrit with the default --start-time and --end-time
UpdateJiraFromGerrit(d) ==
  /\ now' = now + 1
  /\ record' = NoRecord
  /\ Begin("update", d,
           strftime(now' - timedelta(weeks)), strftime(now'))

\* IncrementJiraFromGerrit up to the call of update_issues_from_review
IncrementJiraFromGerrit(d) ==
  /\ now' = now + 1
  /\ LET end   == now'
         start == last_success(poll_history, end - timedelta(weeks))
     IN /\ record' = [ period_start |-> start, period_end |-> end,
                       status |-> -1 ]
        /\ Begin("increment", d, strftime(start), strftime(end))

\* IncrementJiraFromGerrit after the call: status 0 when it returned, and
\* the finally clause
FinallyIncrement ==
  /\ UNCHANGED << worker, tools >>
  /\ pc \in { "returned", "raised" }
  /\ cmd = "increment"
  /\ LET rec == [ record EXCEPT !.status = record_status(pc = "returned") ]
     IN /\ record' = rec
        /\ IF record_written(dry_run, pc = "returned")
           THEN /\ poll_history' = Append(poll_history, rec)
                /\ gerrit_jira_map' = session
           ELSE UNCHANGED << poll_history, gerrit_jira_map >>
  /\ pc' = "done"
  /\ UNCHANGED << gerrit, issue_status, gerrit_jira_log, now, env_steps,
                  args, session, local, raised, hist >>

\* UpdateJiraFromGerrit after the call: the session is dropped as it is
ExitUpdate ==
  /\ UNCHANGED << worker, tools >>
  /\ pc \in { "returned", "raised" }
  /\ cmd = "update"
  /\ pc' = "done"
  /\ UNCHANGED << gerrit, issue_status, tables, now, env_steps, args,
                  record, session, local, raised, hist >>

\* ------------------------------------------- update_issues_from_review
\* the lookup of the 'Done' resolution and the assert
CheckResolutions ==
  /\ UNCHANGED << worker, tools >>
  /\ pc = "resolutions"
  /\ \E answer \in ResolutionLists :
       /\ jira_res' = answer
       /\ IF find_resolution(answer, "Done") # None
          THEN /\ offset' = 0
               /\ has_more_changes' = TRUE
               /\ pc' = "fetch"
               /\ UNCHANGED raised
          ELSE /\ raised' = "AssertionError"
               /\ pc' = "raised"
               /\ UNCHANGED << offset, has_more_changes >>
  /\ UNCHANGED << gerrit, issue_status, tables, now, env_steps, args, record,
                  session, response, idx, changeinfo, resolutions, ridx,
                  calls, outcomes, processed, fetches, map0, log0, poll0,
                  env0, prev >>

\* the head of the while loop: one page is requested
FetchPage ==
  /\ UNCHANGED << worker, tools >>
  /\ pc = "fetch"
  /\ has_more_changes
  /\ \E fetched \in BOOLEAN :
       IF fetched
       THEN /\ response' = get_changes_from_range(start_time, end_time, offset)
            /\ idx' = 1
            /\ fetches' = Append(fetches, offset)
            /\ pc' = "change"
            /\ UNCHANGED raised
       ELSE /\ raised' = "HTTPError"
            /\ pc' = "raised"
            /\ UNCHANGED << response, idx, fetches >>
  /\ UNCHANGED << gerrit, issue_status, tables, now, env_steps, args, record,
                  session, offset, has_more_changes, changeinfo, resolutions,
                  ridx, calls, outcomes, processed, map0, log0, poll0, env0,
                  prev, jira_res >>

\* the head of the for loop over the page: an abandoned change loses its
\* rows, any other change has its message fetched and scanned
NextChange ==
  /\ UNCHANGED << worker, tools >>
  /\ pc = "change"
  /\ idx <= Len(response)
  /\ LET info == response[idx] IN
     /\ processed' = Append(processed, info)
     /\ IF info.status = "ABANDONED"
        THEN /\ session' = delete_change(session, info.change_id)
             /\ idx' = idx + 1
             /\ UNCHANGED << changeinfo, resolutions, ridx, raised, pc >>
        ELSE \E has_message \in BOOLEAN :
               IF has_message
               THEN LET found == make_resolutions(
                                   get_message_meta(Message[info.change_id]))
                    IN /\ changeinfo' = info
                       /\ resolutions' = found
                       /\ ridx' = 1
                       /\ idx' = idx + 1
                       /\ pc' = IF found = << >> THEN "change" ELSE "pair"
                       /\ UNCHANGED << session, raised >>
               ELSE /\ raised' = "RuntimeError"
                    /\ pc' = "raised"
                    /\ UNCHANGED << session, changeinfo, resolutions, ridx,
                                    idx >>
  /\ UNCHANGED << gerrit, issue_status, tables, now, env_steps, args, record,
                  offset, has_more_changes, response, calls, outcomes,
                  fetches, map0, log0, poll0, env0, prev,
                  jira_res >>

\* the jira calls of one applied transition and what follows from them:
\* transition_issue and add_comment, inside the try when the goal state is
\* one of tag_map's values
apply_transition(issue_key, change_id, from_state, goal_state, rows, transition_ok, comment_ok) ==
  LET t == [ op |-> "transition_issue", issue |-> issue_key,
             change |-> change_id, from |-> from_state, to |-> goal_state,
             ok |-> transition_ok, rows |-> rows ]
      c == [ op |-> "add_comment", issue |-> issue_key,
             change |-> change_id, from |-> from_state, to |-> goal_state,
             ok |-> comment_ok, rows |-> rows ]
      done == IF transition_ok THEN << t, c >> ELSE << t >>
  IN [ calls   |-> done,
       moved   |-> transition_ok,
       escapes |-> ~is_resolution_state(goal_state)
                   /\ ~(transition_ok /\ comment_ok) ]

\* the body of the for loop over the pairs of a change
ProcessPair ==
  /\ UNCHANGED << worker, tools >>
  /\ pc = "pair"
  /\ ridx <= Len(resolutions)
  /\ LET issue_key  == resolutions[ridx][1]
         resolution == resolutions[ridx][2]
         change_id  == changeinfo.change_id
         next_pc    == IF ridx + 1 > Len(resolutions) THEN "change" ELSE "pair"
         skip(result, from_state, goal_state, rows) ==
           /\ outcomes' = Append(outcomes,
                [ issue |-> issue_key, change |-> change_id,
                  status |-> changeinfo.status, from |-> from_state,
                  goal |-> goal_state, rows |-> rows, result |-> result ])
           /\ pc' = next_pc
           /\ UNCHANGED << issue_status, gerrit_jira_log, calls, raised >>
     IN
     IF issue_lookup(issue_key) = None
     THEN /\ skip("not an issue", None, None, 0)
          /\ UNCHANGED << session, gerrit_jira_map >>
     ELSE
       LET from_state == issue_lookup(issue_key)
           absent     == count_pair(session, issue_key, change_id) = 0
           table      == upsert(session, issue_key, change_id)
           goal_state == goal_state_of(changeinfo.status, resolution)
           found      == get_transition_to(Workflow[from_state], goal_state)
           tid        == found[1]
           rows       == count_issue(table, issue_key)
       IN
       /\ session' = table
       /\ IF absent THEN gerrit_jira_map' = table
          ELSE UNCHANGED gerrit_jira_map
       /\ IF ~Contains(issue_key, "-")
          THEN skip("no prefix", from_state, goal_state, rows)
          ELSE IF ~is_nominal_transition(
                     Get(nominal_flow, Split(issue_key, "-")[1], << >>),
                     from_state, goal_state)
          THEN skip("non-forward flow", from_state, goal_state, rows)
          ELSE IF multiple_active(table, issue_key)
          THEN skip("multiple active commits", from_state, goal_state, rows)
          ELSE IF tid = None
          THEN skip("missing transition", from_state, goal_state, rows)
          ELSE IF skip_dry_run(dry_run)
          THEN skip("dry-run", from_state, goal_state, rows)
          ELSE
            \E transition_ok, comment_ok \in BOOLEAN :
              /\ transition_ok \/ comment_ok
              /\ LET did == apply_transition(issue_key, change_id, from_state,
                                goal_state, rows, transition_ok, comment_ok)
                     dest == (CHOOSE t \in Range(Workflow[from_state]) :
                                t.id = tid).to
                 IN
                 /\ calls' = calls \o did.calls
                 /\ issue_status' =
                      IF did.moved
                      THEN [ issue_status EXCEPT ![issue_key] = dest ]
                      ELSE issue_status
                 /\ IF did.escapes
                    THEN /\ raised' = "JIRAError"
                         /\ pc' = "raised"
                         /\ UNCHANGED << gerrit_jira_log, outcomes >>
                    ELSE /\ gerrit_jira_log' = Append(gerrit_jira_log,
                              [ time |-> now, issue |-> issue_key,
                                from_status |-> from_state,
                                to_status |-> goal_state ])
                         /\ outcomes' = Append(outcomes,
                              [ issue |-> issue_key, change |-> change_id,
                                status |-> changeinfo.status,
                                from |-> from_state, goal |-> goal_state,
                                rows |-> rows, result |-> "logged" ])
                         /\ pc' = next_pc
                         /\ UNCHANGED raised
  /\ ridx' = ridx + 1
  /\ UNCHANGED << gerrit, poll_history, now, env_steps, args, record, offset,
                  has_more_changes, response, idx, changeinfo, resolutions,
                  processed, fetches, map0, log0, poll0, env0, prev,
                  jira_res >>

\* the tail of the while loop: another page, or the return
EndPage ==
  /\ UNCHANGED << worker, tools >>
  /\ pc = "change"
  /\ idx > Len(response)
  /\ IF more_changes(response)
     THEN /\ has_more_changes' = TRUE
          /\ offset' = offset + Len(response)
          /\ pc' = "fetch"
     ELSE /\ has_more_changes' = FALSE
          /\ pc' = "returned"
          /\ UNCHANGED offset
  /\ UNCHANGED << gerrit, issue_status, tables, now, env_steps, args, record,
                  session, response, idx, changeinfo, resolutions, ridx,
                  raised, hist >>

\* ------------------------------------------------------------------- spec
Next ==
  \/ \E c \in Changes, st \in Statuses : GerritUpdate(c, st)
  \/ \E d \in BOOLEAN : UpdateJiraFromGerrit(d)
  \/ \E d \in BOOLEAN : IncrementJiraFromGerrit(d)
  \/ CheckResolutions
  \/ FetchPage
  \/ NextChange
  \/ ProcessPair
  \/ EndPage
  \/ FinallyIncrement
  \/ ExitUpdate

Spec == Init /\ [][Next]_vars

\* the commands on a database that may hold the record of an earlier poll
SpecResume == InitResume /\ [][Next]_vars

\* ------------------------------------------- invocations run side by side
\* Two invocations of update_issues_from_review on one database, each in
\* its own sql session, stepping through the database operations of the
\* association upsert of the pairs of the changes.  The jira calls and the
\* log row of a pair touch neither the association table nor the other
\* invocation and are left to Spec.

\* the (issue, change) pairs of a change
pairs_of(change_id) ==
  LET found == make_resolutions(get_message_meta(Message[change_id])) IN
  [ i \in 1..Len(found) |-> << found[i][1], change_id >> ]

\* the pairs an invocation goes through when gerrit lists I1 before I2
WorkPairs == pairs_of("I1") \o pairs_of("I2")

\* mutation of u_map: the table has no unique constraint
u_map_missing(table, row) == TRUE

\* UniqueConstraint('changeid', 'issue', name='u_map'): whether the
\* database accepts the row
u_map(table, row) ==
  \A i \in 1..Len(table) :
    ~(table[i].changeid = row.changeid /\ table[i].issue = row.issue)

\* the worker's position after the pair at idx
after_pair(w) ==
  [ worker[w] EXCEPT !.idx = @ + 1,
                     !.pc = IF worker[w].idx + 1 > Len(WorkPairs)
                            THEN "returned" ELSE "count" ]

\* jira_client.issue and the count() query of the upsert
CountPair(w) ==
  /\ worker[w].pc = "count"
  /\ worker[w].idx <= Len(WorkPairs)
  /\ LET issue_key == WorkPairs[worker[w].idx][1]
         change_id == WorkPairs[worker[w].idx][2]
     IN worker' =
          [ worker EXCEPT ![w] =
              IF issue_lookup(issue_key) = None THEN after_pair(w)
              ELSE IF count_pair(gerrit_jira_map, issue_key, change_id) = 0
                   THEN [ worker[w] EXCEPT !.pc = "insert" ]
                   ELSE after_pair(w) ]
  /\ UNCHANGED << gerrit, issue_status, tables, now, env_steps, pc, args,
                  record, session, local, raised, hist, tools >>

\* sql.add(record); sql.commit() of the upsert
InsertPair(w) ==
  /\ worker[w].pc = "insert"
  /\ LET row == [ issue    |-> WorkPairs[worker[w].idx][1],
                  changeid |-> WorkPairs[worker[w].idx][2] ]
     IN IF u_map(gerrit_jira_map, row)
        THEN /\ gerrit_jira_map' = Append(gerrit_jira_map, row)
             /\ worker' = [ worker EXCEPT ![w] = after_pair(w) ]
        ELSE /\ worker' = [ worker EXCEPT ![w].pc = "raised",
                                          ![w].raised = "IntegrityError" ]
             /\ UNCHANGED gerrit_jira_map
  /\ UNCHANGED << gerrit, issue_status, gerrit_jira_log, poll_history, now,
                  env_steps, pc, args, record, session, local, raised, hist,
                  tools >>

\* a new database, both changes in review, or one of them
InitConcurrent ==
  /\ InitWith(<< >>)
  /\ NoTools
  /\ \A c \in Changes : ch_status[c] \in { "NEW", "DRAFT" }

NextConcurrent ==
  \/ \E w \in Workers : CountPair(w)
  \/ \E w \in Workers : InsertPair(w)

SpecConcurrent == InitConcurrent /\ [][NextConcurrent]_vars

\* ------------------------------------------------ get_message_meta alone
\* the longest commit message, in lines
MaxLines == 3

\* the lines a commit message is made of
MetaLines ==
  { << "Resolves", ":", " " >> \o P9 \o << ",", " " >> \o P1,
    << "Resolves", ":" >> \o Q1 \o << " " >>,
    << "Closes", ":", " " >> \o P1 \o << "," >> \o Q1,
    << "closes", ":", " " >> \o P9,
    << " ", "Closes", ":", " " >> \o P9,
    << "Fix", " ", "the", " ", "thing" >>,
    << "Tested", ":", " " >> \o P9,
    << "ChangeId", ":", " ", "I1" >>,
    << "ChangeId", ":", "I2", ":", "7", " " >> }

\* the commit messages of up to MaxLines lines
Messages == UNION { [ 1..n -> MetaLines ] : n \in 0..MaxLines }

\* the state of the commands, which a function called alone leaves as it is
engine == << gerrit, tables, now, env_steps, pc, args, record, session,
             local, raised, hist, worker >>

\* the state of the commands before the first of them, with a gerrit and a
\* jira that a function called alone does not look at
InitEngine ==
  /\ InitWith(<< >>)
  /\ ch_status = [ c \in Changes |-> "NEW" ]
  /\ page_size = 1

\* the loop over the lines of the message: one line
\* (frame: message = the lines, result = the dictionary being filled,
\* lineno = the index of the next line)
ScanLine ==
  /\ frame.lineno <= Len(frame.message)
  /\ frame' = [ frame EXCEPT
                  !.result = meta_line(@, frame.message[frame.lineno]),
                  !.lineno = @ + 1 ]
  /\ UNCHANGED << engine, issue_status >>

\* gerrit answered with a commit message and result is the new dictionary
InitMeta ==
  /\ InitEngine
  /\ issue_status[P1] = "Open"
  /\ \E message \in Messages :
       frame = [ message |-> message,
                 result  |-> [ Closes |-> << >>, Resolves |-> << >> ],
                 lineno  |-> 1 ]

NextMeta == ScanLine

SpecMeta == InitMeta /\ [][NextMeta]_vars

\* ----------------------------------------------- get_transition_to alone
\* the longest list of transitions jira offers for an issue
MaxTransitions == 3

\* the transitions jira may offer (id, display name)
Transitions ==
  { [ id |-> "1", name |-> << "Open", ":", " ", "In Review" >> ],
    [ id |-> "2", name |-> << "Open", " ", "->", " ", "In Review" >> ],
    [ id |-> "3", name |-> << "Open", "->", "Closed" >> ],
    [ id |-> "4", name |-> << "Stop", " ", "work" >> ],
    [ id |-> "5", name |-> << "In Review" >> ],
    [ id |-> "6", name |-> << "In Review", ":", "Open", " " >> ] }

\* the lists of up to MaxTransitions transitions
TransitionLists == UNION { [ 1..n -> Transitions ] : n \in 0..MaxTransitions }

\* the states asked for
TargetStates == { "In Review", "Closed", "Resolved" }

\* the call of get_transition_to(jira_client, issue, target_state)
\* (frame: transitions = what jira_client.transitions(issue) answers,
\* target_state = the argument, returned = (tid, available_states) once the
\* call returned, () before)
GetTransitionTo ==
  /\ frame.returned = << >>
  /\ frame' = [ frame EXCEPT
                  !.returned = get_transition_to(frame.transitions,
                                                 frame.target_state) ]
  /\ UNCHANGED << engine, issue_status >>

\* jira has its transitions for the issue and the caller its target state
InitTransitions ==
  /\ InitEngine
  /\ issue_status[P1] = "Open"
  /\ \E transitions \in TransitionLists, target_state \in TargetStates :
       frame = [ transitions  |-> transitions,
                 target_state |-> target_state,
                 returned     |-> << >> ]

NextTransitions == GetTransitionTo

SpecTransitions == InitTransitions /\ [][NextTransitions]_vars

\* --------------------------- close_issues_with_merged_resolutions alone
\* the longest history of the branch, in commits
MaxCommits == 3

\* the commit messages of the branch (lines)
CommitMessages ==
  { << << "Fix", " ", "the", " ", "thing" >>,
       << " ", "Resolves", ":", " " >> \o P1 \o << ",", "None" >> >>,
    << << "Fix", " ", "the", " ", "thing" >> >>,
    << << "Resolves", ":" >> \o Q1 >>,
    << << "Closes", ":", " " >> \o P1 \o << ",", " " >> \o P9 >> }

\* the histories of up to MaxCommits commits
GitLogs == UNION { [ 1..n -> CommitMessages ] : n \in 0..MaxCommits }

\* str.lower() of a key (of the words that are keys of a tag map)
lower(key) ==
  [ i \in 1..Len(key) |-> CASE key[i] = "Closes" -> "closes"
                            [] key[i] = "Resolves" -> "resolves"
                            [] OTHER -> key[i] ]

\* tag_map.get(key, None)
tag_map_get(key) ==
  IF Len(key) = 1 /\ key[1] \in DOMAIN tag_map THEN tag_map[key[1]]
  ELSE None

\* git_util.get_merges_that_close_issues: the loop over the issues of a line
RECURSIVE merge_issues(_, _, _)
merge_issues(found, issues, resolution) ==
  IF issues = << >> THEN found
  ELSE LET issue == Strip(Head(issues)) IN
       merge_issues(IF issue = Str("None") THEN found
                    ELSE (issue :> resolution) @@ found,
                    Tail(issues), resolution)

\* git_util.get_merges_that_close_issues: the loop over the lines
RECURSIVE merge_lines(_, _)
merge_lines(found, lines) ==
  IF lines = << >> THEN found
  ELSE LET parts == Split1(Strip(Head(lines)), ":") IN
       IF Len(parts) # 2 THEN merge_lines(found, Tail(lines))
       ELSE LET key        == parts[1]
                issues     == parts[2]
                resolution == IF tag_map_get(key) # None THEN tag_map_get(key)
                              ELSE tag_map_get(lower(key))
            IN IF resolution = None THEN merge_lines(found, Tail(lines))
               ELSE merge_lines(merge_issues(found, Split(issues, ","),
                                             resolution),
                                Tail(lines))

\* the resolutions dictionary of a commit: issue key -> resolution
commit_resolutions(message) == merge_lines(<< >>, message)

\* git_util.get_merges_that_close_issues as a generator: the index of the
\* next commit after `at` whose dictionary is not empty, 0 when there is none
next_merge(log, at) ==
  LET yielded == { i \in (at + 1)..Len(log) :
                     DOMAIN commit_resolutions(log[i]) # {} } IN
  IF yielded = {} THEN 0
  ELSE CHOOSE i \in yielded : \A j \in yielded : i <= j

\* whether the loop over the commits goes on after a commit
within_max(count, max) == ~(count > max)

\* (frame: git_log = the messages of the commits of the branch, newest
\* first, max_commits = the argument, iter_count = the local of that name,
\* at = the index into git_log of the commit last read, todo = the issue
\* keys of that commit not yet looped over, pc = the position in the
\* function, calls = the transition_issue calls made)

\* the loop over jira_client.resolutions() and the assert
CloseBegin ==
  /\ frame.pc = "start"
  /\ \E answer \in ResolutionLists :
       frame' = [ frame EXCEPT
                    !.pc = IF find_resolution(answer, "Done") = None
                           THEN "raised" ELSE "walk" ]
  /\ UNCHANGED << engine, issue_status >>

\* the generator is asked for the next pair (commit, resolutions)
NextMerge ==
  /\ frame.pc = "walk"
  /\ LET i == next_merge(frame.git_log, frame.at) IN
     IF i = 0
     THEN frame' = [ frame EXCEPT !.at = Len(frame.git_log), !.todo = {},
                                  !.pc = "returned" ]
     ELSE frame' = [ frame EXCEPT
                       !.at = i,
                       !.todo = DOMAIN commit_resolutions(frame.git_log[i]),
                       !.pc = "commit" ]
  /\ UNCHANGED << engine, issue_status >>

\* the body of the loop over resolutions.iteritems(), whose order is the
\* dictionary's
CloseIssue ==
  /\ frame.pc = "commit"
  /\ \E issue_key \in frame.todo :
       LET resolution ==
             commit_resolutions(frame.git_log[frame.at])[issue_key]
           status     == issue_lookup(issue_key)
           found      == get_transition_to(Workflow[status], resolution)
           tid        == found[1]
           rest       == frame.todo \ { issue_key }
       IN
       IF status = None
       THEN /\ frame' = [ frame EXCEPT !.todo = rest ]
            /\ UNCHANGED issue_status
       ELSE IF status = resolution \/ tid = None
       THEN /\ frame' = [ frame EXCEPT !.todo = rest ]
            /\ UNCHANGED issue_status
       ELSE \E transition_ok, comment_ok \in BOOLEAN :
              /\ frame' = [ frame EXCEPT
                              !.todo = rest,
                              !.calls = Append(@,
                                 [ commit |-> frame.at, issue |-> issue_key,
                                   from |-> status, to |-> resolution,
                                   tid |-> tid, ok |-> transition_ok ]),
                              !.pc = IF transition_ok /\ comment_ok
                                     THEN "commit" ELSE "raised" ]
              /\ issue_status' = IF transition_ok
                                 THEN [ issue_status EXCEPT
                                          ![issue_key] = resolution ]
                                 ELSE issue_status
  /\ UNCHANGED engine

\* the end of the body of the loop over the commits
EndCommit ==
  /\ frame.pc = "commit"
  /\ frame.todo = {}
  /\ frame' = [ frame EXCEPT
                  !.iter_count = @ + 1,
                  !.pc = IF within_max(frame.iter_count + 1, frame.max_commits)
                         THEN "walk" ELSE "returned" ]
  /\ UNCHANGED << engine, issue_status >>

\* jira has its issues, the branch its history, the caller its max_commits
InitClose ==
  /\ InitEngine
  /\ \E log \in GitLogs, max \in 0..(MaxCommits - 1) :
       frame = [ git_log |-> log, max_commits |-> max, iter_count |-> 0,
                 at |-> 0, todo |-> {}, pc |-> "start", calls |-> << >> ]

NextClose ==
  \/ CloseBegin
  \/ NextMerge
  \/ CloseIssue
  \/ EndCommit

SpecClose == InitClose /\ [][NextClose]_vars

\* ================================================================ claims
\* the jira calls of the running (or last) command that ask for a transition
TransitionCalls == { i \in 1..Len(calls) : calls[i].op = "transition_issue" }

\* the part of an issue key before its first "-"
KeyPrefix(key) ==
  SubSeq(key, 1, (CHOOSE i \in 1..Len(key) :
                    key[i] = "-" /\ \A j \in 1..(i - 1) : key[j] # "-") - 1)

\* to is among nominal_flow[prefix of key][from]
FlowAllows(key, from, to) ==
  /\ \E i \in 1..Len(key) : key[i] = "-"
  /\ KeyPrefix(key) \in DOMAIN nominal_flow
  /\ from \in DOMAIN nominal_flow[KeyPrefix(key)]
  /\ \E n \in 1..Len(nominal_flow[KeyPrefix(key)][from]) :
       nominal_flow[KeyPrefix(key)][from][n] = to

\* C1: forward-only.  Every transition update_issues_from_review asks jira
\* for, of an issue observed in state from towards goal state to, has to in
\* nominal_flow[prefix][from]; in particular a backward move is never asked
\* for, and an issue whose prefix has no flow is never transitioned.
C1_ForwardOnly ==
  \A i \in TransitionCalls :
    FlowAllows(calls[i].issue, calls[i].from, calls[i].to)

\* C1 witness: in one command a forward move (Open to In Review) was applied
\* and a move that jira offers but the flow does not allow was skipped
C1_Witness ==
  /\ \E i \in TransitionCalls :
       calls[i].ok /\ calls[i].from = "Open" /\ calls[i].to = "In Review"
  /\ \E n \in 1..Len(outcomes) :
       /\ outcomes[n].result = "non-forward flow"
       /\ \E t \in Range(Workflow[outcomes[n].from]) : t.to = outcomes[n].goal

\* the rows of an association table for an issue
RowsOf(table, key) == { i \in 1..Len(table) : table[i].issue = key }

\* C2: multi-association guard.  A step that asks jira for a transition of
\* issue X leaves the store, as the command sees it, with exactly one row
\* for X, and X had at most one row before the step; and the rows of an
\* issue only become fewer in the step that processes an ABANDONED change,
\* which removes rows of that change only.
C2_Step ==
  /\ \A i \in 1..Len(calls') :
       (i > Len(calls) /\ Len(calls') > Len(calls)
        /\ calls'[i].op = "transition_issue")
       => /\ Cardinality(RowsOf(session', calls'[i].issue)) = 1
          /\ Cardinality(RowsOf(session, calls'[i].issue)) <= 1
          /\ calls'[i].rows = 1
  /\ \A key \in { session[i].issue : i \in 1..Len(session) } :
       Cardinality(RowsOf(session', key)) < Cardinality(RowsOf(session, key))
       => /\ pc = "change"
          /\ idx <= Len(response)
          /\ response[idx].status = "ABANDONED"
          /\ \A i \in 1..Len(session) :
               session[i].changeid # response[idx].change_id
               => \E j \in 1..Len(session') : session'[j] = session[i]

C2_MultiAssociationGuard == [][C2_Step]_vars

\* C2 witness: the command started with two rows for P-1, processed an
\* abandoned change and then asked for a transition of P-1
C2_Witness ==
  /\ Cardinality(RowsOf(map0, P1)) = 2
  /\ \E n \in 1..Len(processed) : processed[n].status = "ABANDONED"
  /\ \E i \in TransitionCalls : calls[i].issue = P1

\* the rows the running (or last) command appended to gerrit_jira_log
Appended == { i \in 1..Len(gerrit_jira_log) : i > Len(log0) }

\* the rows the command before it appended
AppendedBefore ==
  { j \in 1..Len(log0) : j > Len(log0) - prev.logged }

\* a command that returned, not dry-run, right after another such command
\* over the same window, with no change in gerrit in between
SecondRunOfSameWindow ==
  /\ pc = "done" /\ raised = "none" /\ ~dry_run
  /\ prev.ran /\ prev.returned /\ ~prev.dry
  /\ prev.start = start_time /\ prev.end = end_time
  /\ prev.env0 = env0

\* C3: idempotency.  When the same window is processed twice, not dry-run,
\* with gerrit unchanged in between, the association table has no two rows
\* with the same (issue, changeid) and the second run appends no
\* gerrit_jira_log row that repeats the (issue, from_status, to_status) of a
\* row the first run appended.
C3_Idempotent ==
  SecondRunOfSameWindow
  => /\ \A i, j \in 1..Len(gerrit_jira_map) :
          gerrit_jira_map[i] = gerrit_jira_map[j] => i = j
     /\ \A i \in Appended : \A j \in AppendedBefore :
          \/ gerrit_jira_log[i].issue # gerrit_jira_log[j].issue
          \/ gerrit_jira_log[i].from_status # gerrit_jira_log[j].from_status
          \/ gerrit_jira_log[i].to_status # gerrit_jira_log[j].to_status

\* the transition_issue calls that jira accepted
Succeeded == { i \in TransitionCalls : calls[i].ok }

\* C4: one gerrit_jira_log row per applied transition, and only for one.
\* At every point of a command the number of rows it appended equals the
\* number of its transition_issue calls that succeeded, and every appended
\* row carries the issue, the pre-transition status and the goal state of
\* such a call; also when jira rejects the transition or the comment.
C4_LogMatchesTransitions ==
  /\ Cardinality(Appended) = Cardinality(Succeeded)
  /\ \A i \in Appended : \E c \in Succeeded :
       /\ gerrit_jira_log[i].issue = calls[c].issue
       /\ gerrit_jira_log[i].from_status = calls[c].from
       /\ gerrit_jira_log[i].to_status = calls[c].to

\* C5: abandon cleanup.  When a command that is not a dry run has finished
\* (here: has returned without an exception), the committed association
\* table has no row of any change it processed as ABANDONED, and no jira
\* call was made on behalf of such a change.
C5_AbandonCleanup ==
  (pc = "done" /\ raised = "none" /\ ~dry_run)
  => \A n \in 1..Len(processed) :
       processed[n].status = "ABANDONED"
       => /\ \A i \in 1..Len(gerrit_jira_map) :
               gerrit_jira_map[i].changeid # processed[n].change_id
          /\ \A i \in 1..Len(calls) :
               calls[i].change # processed[n].change_id

\* C6: a dry run leaves the associations untouched.  When a command run
\* with dry_run has finished (here: has returned without an exception), the
\* committed association table is the table it started with.
C6_DryRunKeepsAssociations ==
  (pc = "done" /\ raised = "none" /\ dry_run) => gerrit_jira_map = map0

\* jira offers, from a status, a transition whose name ends in the goal
Offers(from, goal) ==
  \E t \in Range(Workflow[from]) :
    /\ t.to = goal
    /\ \E i \in 1..Len(t.name) : t.name[i] \in { ":", "->" }

\* the number of (issue, resolution) pairs of each change
PairsIn ==
  [ c \in Changes |-> Len(make_resolutions(get_message_meta(Message[c]))) ]

\* the number of (issue, resolution) pairs of the changes in a list that
\* are not abandoned

RECURSIVE PairCount(_)
PairCount(changes) ==
  IF changes = << >> THEN 0
  ELSE PairCount(Tail(changes))
       + ( IF Head(changes).status = "ABANDONED" THEN 0
           ELSE PairsIn[Head(changes).change_id] )

\* C7: a dry run mutates neither jira nor the audit tables.  In an
\* increment-jira-from-gerrit command with dry_run set there is no
\* transition_issue or add_comment call, no gerrit_jira_log row is appended
\* and no poll_history record is written, while every pair still runs
\* through the checks: a pair is reported as a dry-run skip exactly when the
\* issue exists, the flow allows the move, the issue has one row and jira
\* offers the transition, every other pair ends at the first check it
\* fails, and a command that returned has an outcome for every pair.
C7_DryRunNoMutation ==
  (dry_run /\ cmd = "increment")
  => /\ calls = << >>
     /\ gerrit_jira_log = log0
     /\ poll_history = poll0
     /\ \A n \in 1..Len(outcomes) :
          LET o     == outcomes[n]
              known == o.issue \in KnownIssues
              flow  == known /\ FlowAllows(o.issue, o.from, o.goal)
              alone == flow /\ o.rows <= 1
              offer == alone /\ Offers(o.from, o.goal)
          IN /\ o.result = "not an issue" <=> ~known
             /\ o.result = "non-forward flow" <=> (known /\ ~flow)
             /\ o.result = "multiple active commits" <=> (flow /\ ~alone)
             /\ o.result = "missing transition" <=> (alone /\ ~offer)
             /\ o.result = "dry-run" <=> offer
     /\ (pc \in { "returned", "done" } /\ raised = "none")
        => Len(outcomes) = PairCount(processed)

\* C7 witness: a dry-run increment command returned after pairs ended at
\* each of the checks
C7_Witness ==
  /\ pc = "done" /\ cmd = "increment" /\ dry_run /\ raised = "none"
  /\ \A r \in { "not an issue", "non-forward flow", "multiple active commits",
                "dry-run" } :
       \E n \in 1..Len(outcomes) : outcomes[n].result = r

Written == { i \in 1..Len(poll_history) : i > Len(poll0) }

\* C9: a status 0 record is written only after the call returned.  Nothing
\* is written to poll_history while update_issues_from_review runs, and a
\* status 0 record of a finished command means that the call returned
\* without an exception after the last page, having processed every change
\* of the window; a command that raised leaves no status 0 record.
C9_SuccessOnlyAfterReturn ==
  /\ pc \notin { "idle", "done" } => poll_history = poll0
  /\ \A i \in Written :
       poll_history[i].status = 0
       => /\ pc = "done" /\ raised = "none" /\ ~has_more_changes
          /\ env_steps = env0
             => [ n \in 1..Len(processed) |-> processed[n].change_id ]
                = query_result(start_time, end_time)

\* C9 witness: a status 0 record written after two pages were processed
C9_Witness ==
  /\ pc = "done" /\ cmd = "increment"
  /\ \E i \in Written : poll_history[i].status = 0
  /\ Len(fetches) = 2 /\ Len(processed) = 2

\* an increment command, not dry-run, that ended with an exception
AbortedIncrement ==
  pc = "done" /\ cmd = "increment" /\ ~dry_run /\ raised # "none"

\* C10 as claimed: on a fatal error nothing is written to the checkpoint
\* table: after an increment command (not dry-run) that ended with an
\* exception, poll_history has the records it had before.
C10_NothingWrittenOnError == AbortedIncrement => poll_history = poll0

\* C10 as amended: after an increment command (not dry-run) that ended
\* with an exception, poll_history is what it was before followed by
\* exactly one record, with status -1 and the window of the command.
C10_OneFailureRecordOnError ==
  AbortedIncrement
  => /\ Len(poll_history) = Len(poll0) + 1
     /\ SubSeq(poll_history, 1, Len(poll0)) = poll0
     /\ poll_history[Len(poll_history)].status = -1
     /\ poll_history[Len(poll_history)].period_end = now
     /\ poll_history[Len(poll_history)].period_start \div 2 = start_time

\* C10 witness: the query for the second page failed
C10_Witness ==
  AbortedIncrement /\ raised = "HTTPError" /\ Len(processed) >= 1

\* a finished increment command
FinishedIncrement == pc = "done" /\ cmd = "increment"

\* the command appended exactly one record, of its window, with status -1
\* or 0
OneRecordWritten ==
  /\ Len(poll_history) = Len(poll0) + 1
  /\ SubSeq(poll_history, 1, Len(poll0)) = poll0
  /\ poll_history[Len(poll_history)].status \in { -1, 0 }
  /\ poll_history[Len(poll_history)].period_end = now
  /\ poll_history[Len(poll_history)].period_start \div 2 = start_time

\* C11 as claimed: exactly one poll_history record per invocation.  Every
\* finished increment command, whatever its outcome and flags, appended
\* exactly one record, with status -1 or 0.
C11_OneRecordPerInvocation == FinishedIncrement => OneRecordWritten

\* C11 as amended: every finished increment command that is not a dry run
\* appended exactly one record, with status -1 or 0, and every finished
\* dry-run increment command appended none.
C11_OneRecordUnlessDryRun ==
  FinishedIncrement
  => IF dry_run THEN poll_history = poll0 ELSE OneRecordWritten

\* C11 witness: two increment commands, one that raised and one that
\* returned, left one record each
C11_Witness ==
  /\ FinishedIncrement /\ ~dry_run
  /\ Len(poll_history) = 2
  /\ poll_history[1].status # poll_history[2].status

\* the status 0 records of a PollHistory table
Successes(history) == { i \in 1..Len(history) : history[i].status = 0 }

\* the ids of the changes the running (or last) command took from its pages
ProcessedIds == { processed[n].change_id : n \in 1..Len(processed) }

\* an increment command that follows an aborted one: the last record of the
\* table it started with has status -1
AfterAbortedPoll ==
  /\ cmd = "increment"
  /\ poll0 # << >>
  /\ poll0[Len(poll0)].status = -1

\* C12 as claimed: a fetch failure retries the same window.  An increment
\* command whose fetch raised stops without processing another change, and
\* the increment command after an aborted one has the period_start of the
\* aborted one and a later period_end.
C12_SameWindowRetried ==
  /\ (cmd = "increment" /\ raised = "HTTPError")
     => /\ pc \in { "raised", "done" }
        /\ Len(processed) = offset
  /\ AfterAbortedPoll
     => /\ record.period_start = poll0[Len(poll0)].period_start
        /\ record.period_end > poll0[Len(poll0)].period_end

\* C12 as amended: an increment command whose fetch raised stops without
\* processing another change and adds no status 0 record.  The increment
\* command after an aborted one has a later period_end; it has the
\* period_start of the aborted one when the table holds a status 0 record,
\* and then, once it returned, it has fetched every change of the aborted
\* window again; with no status 0 record its period_start is its own time
\* minus one week, later than that of the aborted one.
C12_WindowRetriedFromCheckpoint ==
  /\ (cmd = "increment" /\ raised = "HTTPError")
     => /\ pc \in { "raised", "done" }
        /\ Len(processed) = offset
        /\ Successes(poll_history) = Successes(poll0)
  /\ AfterAbortedPoll
     => LET aborted == poll0[Len(poll0)] IN
        /\ record.period_end > aborted.period_end
        /\ IF Successes(poll0) # {}
           THEN /\ record.period_start = aborted.period_start
                /\ (pc = "done" /\ raised = "none" /\ env_steps = env0)
                   => \A c \in Changes :
                        ( /\ aborted.period_start \div 2 <= ch_updated[c]
                          /\ ch_updated[c] <= aborted.period_end \div 2 )
                        => c \in ProcessedIds
           ELSE /\ record.period_start = now - 8
                /\ record.period_start > aborted.period_start

\* C12 witness: after a successful poll and an aborted one, an increment
\* command with the period_start of the aborted one returned, having fetched
\* two changes in two pages
C12_Witness ==
  /\ AfterAbortedPoll /\ Successes(poll0) # {}
  /\ pc = "done" /\ raised = "none"
  /\ record.period_start = poll0[Len(poll0)].period_start
  /\ Len(fetches) = 2 /\ Len(processed) = 2

\* the jira calls of the running (or last) command that raised JIRAError
Rejected == { i \in 1..Len(calls) : ~calls[i].ok }

\* the pair of a jira call ran to the end of the loop body
PairCompleted(call) ==
  \E n \in 1..Len(outcomes) :
    /\ outcomes[n].issue = call.issue
    /\ outcomes[n].change = call.change
    /\ outcomes[n].result = "logged"

\* C13: a tracker rejection is tolerated only on the resolution path.  When
\* transition_issue or add_comment raised JIRAError and the goal state is a
\* value of tag_map, the pair ran to its end and the command went on, so
\* that a command that returned has an outcome for every pair of every
\* change of its window; when the goal state is not a value of tag_map the
\* error ended the command: it is the last call and the command raised
\* JIRAError.  A command raises JIRAError in no other case.
C13_RejectionToleratedOnResolutionPath ==
  /\ \A i \in Rejected :
       IF calls[i].to \in { tag_map["Closes"], tag_map["Resolves"] }
       THEN PairCompleted(calls[i])
       ELSE /\ i = Len(calls)
            /\ raised = "JIRAError"
            /\ pc \in { "raised", "done" }
            /\ ~PairCompleted(calls[i])
  /\ raised = "JIRAError"
     => /\ Len(calls) \in Rejected
        /\ calls[Len(calls)].to \in { "In Progress", "In Review" }
  /\ (pc \in { "returned", "done" } /\ raised = "none")
     => /\ Len(outcomes) = PairCount(processed)
        /\ env_steps = env0
           => [ n \in 1..Len(processed) |-> processed[n].change_id ]
              = query_result(start_time, end_time)

\* C13 witness: a command returned after jira rejected a call of change I1
\* on the resolution path, and went on to the pairs of change I2
C13_Witness ==
  /\ pc = "done" /\ raised = "none"
  /\ \E i \in Rejected :
       /\ calls[i].change = "I1"
       /\ calls[i].to = tag_map["Closes"]
  /\ \E n \in 1..Len(outcomes) : outcomes[n].change = "I2"

\* the pairs of the running (or last) command whose issue jira did not find
NotFound == { n \in 1..Len(outcomes) : outcomes[n].result = "not an issue" }

\* C14: not-found is local.  A pair ends as "not an issue" exactly when jira
\* does not know the key; for such a pair the command made no jira call,
\* appended no log row and holds no association row, and it went on: a
\* command that returned has an outcome for every pair of every change of
\* its window.
C14_NotFoundIsLocal ==
  /\ \A n \in 1..Len(outcomes) :
       n \in NotFound <=> outcomes[n].issue \notin KnownIssues
  /\ \A n \in NotFound :
       /\ \A i \in 1..Len(calls) :
            ~(calls[i].issue = outcomes[n].issue
              /\ calls[i].change = outcomes[n].change)
       /\ \A i \in Appended : gerrit_jira_log[i].issue # outcomes[n].issue
       /\ count_pair(session, outcomes[n].issue, outcomes[n].change) = 0
       /\ count_pair(gerrit_jira_map, outcomes[n].issue, outcomes[n].change) = 0
  /\ (pc \in { "returned", "done" } /\ raised = "none")
     => /\ Len(outcomes) = PairCount(processed)
        /\ env_steps = env0
           => ProcessedIds = Range(query_result(start_time, end_time))

\* C14 witness: a command returned after a pair whose issue was not found,
\* a transition for a later issue of the same change and the pairs of a
\* later change
C14_Witness ==
  /\ pc = "done" /\ raised = "none"
  /\ \E n \in NotFound :
       /\ \E m \in 1..Len(outcomes) :
            /\ m > n
            /\ outcomes[m].change = outcomes[n].change
            /\ outcomes[m].result = "logged"
       /\ \E m \in 1..Len(outcomes) :
            m > n /\ outcomes[m].change # outcomes[n].change

\* jira's answer to the running (or last) command names no 'Done' resolution
NoDoneResolution ==
  /\ jira_res # << >>
  /\ \A i \in 1..Len(jira_res) : jira_res[i].name # "Done"

\* C15: a configuration error is fatal at startup.  When jira's resolutions
\* have none named 'Done', update_issues_from_review raised before it
\* fetched a page: the command queried no page, took no change, left the
\* association table and the log as they were and made no jira call.
C15_NoDoneIsFatalAtStartup ==
  NoDoneResolution
  => /\ raised = "AssertionError"
     /\ pc \in { "raised", "done" }
     /\ fetches = << >> /\ processed = << >> /\ outcomes = << >>
     /\ session = map0 /\ gerrit_jira_map = map0
     /\ gerrit_jira_log = log0
     /\ calls = << >>

\* C15 witness: a command found no 'Done' resolution on a database that has
\* association rows, with changes in its window
C15_Witness ==
  /\ NoDoneResolution /\ pc = "done"
  /\ map0 # << >>
  /\ query_result(start_time, end_time) # << >>

\* the issue keys each commit message names, by tag, as a reader takes them
\* from the Closes: and Resolves: lines
ReferencedBy ==
  [ I1 |-> [ Closes |-> { P1 }, Resolves |-> { } ],
    I2 |-> [ Closes |-> { Q1 }, Resolves |-> { P9, P1 } ] ]

\* the goal-state table
GoalTable(status, tag) ==
  CASE status = "MERGED" -> tag_map[tag]
    [] status = "DRAFT"  -> "In Progress"
    [] OTHER             -> "In Review"

\* the changes the running (or last) command took as ABANDONED
TakenAbandoned ==
  { processed[n].change_id :
      n \in { m \in 1..Len(processed) : processed[m].status = "ABANDONED" } }

\* C16: the goal-state table.  The goal state of every pair that
\* update_issues_from_review evaluated is tag_map of the tag that names the
\* issue when the change is MERGED, 'In Progress' when it is DRAFT and
\* 'In Review' otherwise, and a transition is asked for with no other
\* destination; a change taken as ABANDONED has no pair evaluated and no
\* jira call.
C16_GoalStateTable ==
  /\ \A n \in 1..Len(outcomes) :
       LET o == outcomes[n] IN
       /\ o.status # "ABANDONED"
       /\ o.result # "not an issue"
          => \E tag \in { "Closes", "Resolves" } :
               /\ o.issue \in ReferencedBy[o.change][tag]
               /\ o.goal = GoalTable(o.status, tag)
  /\ \A i \in 1..Len(calls) :
       \E n \in 1..Len(processed) :
         \E tag \in { "Closes", "Resolves" } :
           /\ processed[n].change_id = calls[i].change
           /\ calls[i].issue \in ReferencedBy[calls[i].change][tag]
           /\ calls[i].to = GoalTable(processed[n].status, tag)
  /\ \A n \in 1..Len(outcomes) : outcomes[n].change \notin TakenAbandoned
  /\ \A i \in 1..Len(calls) : calls[i].change \notin TakenAbandoned

\* C16 witness: a command took one change as ABANDONED and evaluated, for a
\* MERGED change, a pair named by Closes and a pair named by Resolves
C16_Witness ==
  /\ pc = "done" /\ TakenAbandoned # {}
  /\ \E n, m \in 1..Len(outcomes) :
       /\ outcomes[n].status = "MERGED" /\ outcomes[n].goal = tag_map["Closes"]
       /\ outcomes[m].status = "MERGED" /\ outcomes[m].goal = tag_map["Resolves"]

\* the log rows of an issue in a table
LogOf(table, key) == SelectSeq(table, LAMBDA row : row.issue = key)

\* the association rows of an issue in a table
AssociationsOf(table, key) == SelectSeq(table, LAMBDA row : row.issue = key)

\* the running (or last) command, not a dry run, returned, having evaluated
\* the pair (P-1, I1) with the change and the issue as given, P-1 named by
\* no other live change, and jira having accepted every call
Scenario(change_status, issue_state) ==
  /\ pc = "done" /\ ~dry_run /\ raised = "none"
  /\ Rejected = {}
  /\ \E n \in 1..Len(outcomes) :
       /\ outcomes[n].issue = P1 /\ outcomes[n].change = "I1"
       /\ outcomes[n].status = change_status
       /\ outcomes[n].from = issue_state
       /\ outcomes[n].rows = 1
  /\ \A n \in 1..Len(outcomes) :
       outcomes[n].issue = P1 => outcomes[n].change = "I1"

\* C17: the end-to-end scenario, with tag_map Closes -> Resolved and a flow
\* that allows Open -> In Review and In Review -> Resolved.  From an empty
\* store, a command that sees I1 as NEW ('Closes: P-1') with P-1 at Open
\* leaves exactly the association (P-1, I1) and exactly the log row
\* (P-1, Open, In Review).  A later command that sees I1 as MERGED, with
\* P-1 at In Review and associated with I1 alone, moves P-1 to Resolved,
\* appends (P-1, In Review, Resolved) and leaves the association in place.
C17_EndToEnd ==
  /\ (Scenario("NEW", "Open") /\ map0 = << >> /\ log0 = << >>)
     => /\ AssociationsOf(gerrit_jira_map, P1)
           = << [ issue |-> P1, changeid |-> "I1" ] >>
        /\ LogOf(gerrit_jira_log, P1)
           = << [ time |-> now, issue |-> P1, from_status |-> "Open",
                  to_status |-> "In Review" ] >>
        /\ issue_status[P1] = "In Review"
  /\ ( /\ Scenario("MERGED", "In Review")
       /\ AssociationsOf(map0, P1) = << [ issue |-> P1, changeid |-> "I1" ] >>
       /\ Len(LogOf(log0, P1)) = 1 )
     => /\ issue_status[P1] = "Resolved"
        /\ LogOf(gerrit_jira_log, P1)
           = LogOf(log0, P1)
             \o << [ time |-> now, issue |-> P1, from_status |-> "In Review",
                     to_status |-> "Resolved" ] >>
        /\ AssociationsOf(gerrit_jira_map, P1) = AssociationsOf(map0, P1)
        /\ \E i \in TransitionCalls :
             /\ calls[i].issue = P1 /\ calls[i].to = "Resolved"

\* C17 witness: the second poll of the scenario has ended, after a first
\* poll that started on an empty store
C17_Witness ==
  /\ cmd = "increment" /\ Scenario("MERGED", "In Review")
  /\ Len(poll_history) = 2
  /\ poll_history[1].status = 0 /\ poll_history[2].status = 0
  /\ gerrit_jira_map = << [ issue |-> P1, changeid |-> "I1" ] >>
  /\ LogOf(gerrit_jira_log, P1)
     = << [ time |-> 2, issue |-> P1, from_status |-> "Open",
            to_status |-> "In Review" ],
          [ time |-> 3, issue |-> P1, from_status |-> "In Review",
            to_status |-> "Resolved" ] >>

\* C18: association uniqueness under concurrency.  With two invocations
\* interleaved arbitrarily on one database, the committed association table
\* never has two rows with the same issue and changeid.
C18_UniqueUnderConcurrency ==
  \A i, j \in 1..Len(gerrit_jira_map) :
    ( /\ gerrit_jira_map[i].issue = gerrit_jira_map[j].issue
      /\ gerrit_jira_map[i].changeid = gerrit_jira_map[j].changeid )
    => i = j

\* C18 witness: both invocations saw count() = 0 for a pair, one inserted
\* the row and the insert of the other was rejected
C18_Witness ==
  \E w \in Workers :
    /\ worker[w].raised = "IntegrityError"
    /\ count_pair(gerrit_jira_map, WorkPairs[worker[w].idx][1],
                  WorkPairs[worker[w].idx][2]) = 1

\* the number of changes of the page served at an offset of a list
PageLength(length, at) ==
  IF length - at > page_size THEN page_size
  ELSE IF length > at THEN length - at ELSE 0

\* the number of queries that cover a list: one per page, one for an empty
\* list
PagesNeeded(length) ==
  IF length = 0 THEN 1 ELSE (length + page_size - 1) \div page_size

\* C19: pagination covers the window and stops.  While gerrit's list is
\* stable, the first query has offset 0 and every later one the offset of
\* the query before plus the length of its page, the changes taken are the
\* list's first changes in the list's order, each once, and there are never
\* more queries than pages; a command that returned made exactly one query
\* per page and took every change of the list.
C19_PaginationCoversWindow ==
  (env_steps = env0 /\ pc # "idle")
  => LET list == query_result(start_time, end_time) IN
     /\ \A k \in 1..Len(fetches) :
          fetches[k] = IF k = 1 THEN 0
                       ELSE fetches[k - 1]
                            + PageLength(Len(list), fetches[k - 1])
     /\ Len(processed) <= Len(list)
     /\ \A n \in 1..Len(processed) : processed[n].change_id = list[n]
     /\ Len(fetches) <= PagesNeeded(Len(list))
     /\ (pc \in { "returned", "done" } /\ raised = "none")
        => /\ Len(fetches) = PagesNeeded(Len(list))
           /\ Len(processed) = Len(list)

\* C19 witness: a command returned after two pages of one change each
C19_Witness ==
  /\ pc = "returned" /\ env_steps = env0
  /\ page_size = 1
  /\ fetches = << 0, 1 >>
  /\ Len(query_result(start_time, end_time)) = 2 /\ Len(processed) = 2

\* the (issue, change) pairs the running (or last) command took past the
\* lookup of the issue
Evaluated ==
  { << outcomes[n].issue, outcomes[n].change >> :
      n \in { m \in 1..Len(outcomes) : outcomes[m].result # "not an issue" } }
  \cup { << calls[i].issue, calls[i].change >> : i \in 1..Len(calls) }

\* C20: the association upsert is durable and idempotent.  Every pair a
\* command evaluated, whichever guard ended it and however the command
\* ended, has exactly one row in the committed table from then on; no pair
\* ever has two rows; every row of the table the command started with is
\* kept unless its change was taken as ABANDONED, every other row is of a
\* pair the command evaluated, and a command that found every pair present
\* and took no ABANDONED change leaves the table as it was.
C20_UpsertDurableIdempotent ==
  LET pairs == Evaluated
      gone  == TakenAbandoned
  IN
  /\ \A p \in pairs : count_pair(gerrit_jira_map, p[1], p[2]) = 1
  /\ \A i \in 1..Len(gerrit_jira_map) :
       LET row == gerrit_jira_map[i] IN
       /\ count_pair(gerrit_jira_map, row.issue, row.changeid) = 1
       /\ \/ count_pair(map0, row.issue, row.changeid) = 1
          \/ << row.issue, row.changeid >> \in pairs
  /\ \A i \in 1..Len(map0) :
       map0[i].changeid \notin gone
       => count_pair(gerrit_jira_map, map0[i].issue, map0[i].changeid) = 1
  /\ ( /\ gerrit_jira_map # map0
       /\ gone = {} )
     => \E p \in pairs : count_pair(map0, p[1], p[2]) = 0

\* C20 witness: an update command inserted the row of a pair and then ended
\* with the JIRAError of that pair; the row is in the committed table
C20_Witness ==
  /\ pc = "done" /\ cmd = "update" /\ raised = "JIRAError"
  /\ \E i \in Rejected :
       /\ count_pair(map0, calls[i].issue, calls[i].change) = 0
       /\ count_pair(gerrit_jira_map, calls[i].issue, calls[i].change) = 1

\* how a reader takes each line of MetaLines: the key it is a line of, if
\* any, and its entries (for Closes and Resolves) or its value
Reading(line) ==
  CASE line = << "Resolves", ":", " " >> \o P9 \o << ",", " " >> \o P1
         -> [ key |-> "Resolves", entries |-> << P9, P1 >> ]
    [] line = << "Resolves", ":" >> \o Q1 \o << " " >>
         -> [ key |-> "Resolves", entries |-> << Q1 >> ]
    [] line = << "Closes", ":", " " >> \o P1 \o << "," >> \o Q1
         -> [ key |-> "Closes", entries |-> << P1, Q1 >> ]
    [] line = << "ChangeId", ":", " ", "I1" >>
         -> [ key |-> "ChangeId", entries |-> << "I1" >> ]
    [] line = << "ChangeId", ":", "I2", ":", "7", " " >>
         -> [ key |-> "ChangeId", entries |-> << "I2", ":", "7" >> ]
    [] OTHER
         -> [ key |-> "none", entries |-> << >> ]

\* the entries of the lines of a key among the first n lines, in line order
RECURSIVE Accumulated(_, _)
Accumulated(key, n) ==
  IF n = 0 THEN << >>
  ELSE Accumulated(key, n - 1)
       \o ( IF Reading(frame.message[n]).key = key
            THEN Reading(frame.message[n]).entries ELSE << >> )

\* the lines of a key among the first n lines
LinesOf(key, n) == { i \in 1..n : Reading(frame.message[i]).key = key }

\* C21: tag accumulation.  After any number of lines, Closes and Resolves
\* each hold the entries of their lines so far, in line order; ChangeId is
\* in the dictionary exactly when a ChangeId line was seen and holds one
\* value, that of the last such line; the dictionary has no other key, so
\* a line with no colon, another key or a key in another case adds
\* nothing; and after the last line the dictionary is what
\* get_message_meta returns.
C21_TagAccumulation ==
  LET n == frame.lineno - 1 IN
  /\ frame.result["Closes"] = Accumulated("Closes", n)
  /\ frame.result["Resolves"] = Accumulated("Resolves", n)
  /\ DOMAIN frame.result
     = { "Closes", "Resolves" }
       \cup ( IF LinesOf("ChangeId", n) = {} THEN {} ELSE { "ChangeId" } )
  /\ \A i \in LinesOf("ChangeId", n) :
       (\A j \in LinesOf("ChangeId", n) : j <= i)
       => frame.result["ChangeId"] = Reading(frame.message[i]).entries
  /\ n = Len(frame.message) => frame.result = get_message_meta(frame.message)

\* C21 witness: two Resolves lines around a line of another key gave one
\* list, the first line's issues before the second's
C21_Witness ==
  /\ frame.lineno = 4
  /\ Reading(frame.message[1]).key = "Resolves"
  /\ Reading(frame.message[2]).key = "none"
  /\ Reading(frame.message[3]).key = "Resolves"
  /\ frame.message[1] # frame.message[3]
  /\ frame.result["Resolves"] = << Q1, P9, P1 >>

\* how a reader takes each display name of Transitions: the state the
\* transition leads to, "" when the name does not tell
Destination(transition) ==
  CASE transition.id = "1" -> "In Review"
    [] transition.id = "2" -> "In Review"
    [] transition.id = "3" -> "Closed"
    [] transition.id = "6" -> "Open"
    [] OTHER -> ""

\* the destinations of a list of transitions, in its order
RECURSIVE Destinations(_)
Destinations(transitions) ==
  IF transitions = << >> THEN << >>
  ELSE ( IF Destination(Head(transitions)) = "" THEN << >>
         ELSE << Str(Destination(Head(transitions))) >> )
       \o Destinations(Tail(transitions))

\* C22: transition discovery.  get_transition_to returns an id exactly
\* when some offered transition leads to target_state, and then the id of
\* such a transition; available_states holds the destination of every
\* transition whose name has ':' or '->', in the order offered, and nothing
\* of the other transitions; and 'A: B' and 'A -> B' both name B.
C22_TransitionDiscovery ==
  /\ \A a, b \in IssueStates :
       /\ transition_tstate(<< a, ":", " ", b >>) = Str(b)
       /\ transition_tstate(<< a, " ", "->", " ", b >>) = Str(b)
  /\ frame.returned # << >> =>
       LET tid              == frame.returned[1]
           available_states == frame.returned[2]
           leading == { i \in 1..Len(frame.transitions) :
                          Destination(frame.transitions[i]) = frame.target_state }
       IN /\ tid # None <=> leading # {}
          /\ tid # None => \E i \in leading : frame.transitions[i].id = tid
          /\ available_states = Destinations(frame.transitions)

\* C22 witness: jira offered a transition to In Review in each of the two
\* formats after one to another state, and the call returned the id of one
\* of the two and the three destinations
C22_Witness ==
  /\ frame.target_state = "In Review"
  /\ Len(frame.transitions) = 3
  /\ frame.transitions[1].id = "3"
  /\ frame.transitions[2].id = "1"
  /\ frame.transitions[3].id = "2"
  /\ frame.returned = << "2", << Str("Closed"), Str("In Review"),
                             Str("In Review") >> >>

\* the commits for which close_issues_with_merged_resolutions called
\* transition_issue
UpdatedCommits == { frame.calls[i].commit : i \in 1..Len(frame.calls) }

\* C23: close_issues_with_merged_resolutions updates issues for at most
\* max_commits commits, and never calls transition_issue for an issue
\* whose status already is the resolution state of its tag.
C23_AtMostMaxCommits ==
  /\ Cardinality(UpdatedCommits) <= frame.max_commits
  /\ \A i \in 1..Len(frame.calls) : frame.calls[i].from # frame.calls[i].to

\* the rows of the table a command started with whose change is MERGED
MergedRows == { i \in 1..Len(map0) : ch_status[map0[i].changeid] = "MERGED" }

\* a table has a row
Holds(table, row) == \E i \in 1..Len(table) : table[i] = row

\* C24: the association of a merged change stays and blocks.  A row of the
\* table a command started with leaves the command's view only when its
\* change was taken as ABANDONED; the row (X, C1) of a MERGED change C1 is
\* kept in the view and in the committed table, every pair of X with
\* another change that the command evaluates finds more than one row for X
\* and ends without a transition, and jira is asked for a transition of X
\* by no change but C1.
C24_MergedAssociationBlocks ==
  (env_steps = env0 /\ map0 # << >>) =>
    LET gone == TakenAbandoned IN
    \A i \in 1..Len(map0) :
      LET row == map0[i] IN
      /\ row.changeid \notin gone => Holds(session, row)
      /\ ch_status[row.changeid] = "MERGED" =>
           /\ Holds(session, row)
           /\ Holds(gerrit_jira_map, row)
           /\ \A n \in 1..Len(outcomes) :
                (outcomes[n].issue = row.issue
                 /\ outcomes[n].change # row.changeid)
                => outcomes[n].rows > 1 /\ outcomes[n].result # "logged"
           /\ \A c \in 1..Len(calls) :
                calls[c].issue = row.issue => calls[c].change = row.changeid

\* C24 witness: P-1 had the row of the merged change I1 when the command
\* started, and the pair of P-1 with I2, in review, whose move the flow
\* allows, ended at the multi-association guard with two rows
C24_Witness ==
  /\ env_steps = env0
  /\ \E i \in MergedRows : map0[i] = [ issue |-> P1, changeid |-> "I1" ]
  /\ \E n \in 1..Len(outcomes) :
       /\ outcomes[n].issue = P1
       /\ outcomes[n].change = "I2"
       /\ outcomes[n].status = "NEW"
       /\ outcomes[n].rows = 2
       /\ outcomes[n].result = "multiple active commits"

\* the issue keys a change's message refers to, under either tag
KeysOf(change_id) ==
  ReferencedBy[change_id]["Closes"] \cup ReferencedBy[change_id]["Resolves"]

\* the issue keys a table associates with a change
IssuesOf(table, change_id) ==
  { table[i].issue :
      i \in { j \in 1..Len(table) : table[j].changeid = change_id } }

\* the pairs of a change that the running (or last) command ran to the end
PairsDone(change_id) ==
  { n \in 1..Len(outcomes) : outcomes[n].change = change_id }

\* the results of a pair that a guard ended after the lookup succeeded
GuardSkips ==
  { "no prefix", "non-forward flow", "multiple active commits",
    "missing transition", "dry-run" }

\* the keys of each change's message that jira knows, and their number
KnownKeysOf == [ c \in Changes |-> KeysOf(c) \cap KnownIssues ]
PairTotal == [ c \in Changes |-> Cardinality(KeysOf(c)) ]

\* C25: the association is recorded independently of the guards.  Once a
\* command has run every pair of a change that is not abandoned, the store
\* (as the command sees it and as committed) associates the change with
\* exactly the keys of its message that jira knows; a pair that a guard
\* ended has its row like a pair that was transitioned, and no row of the
\* store has a key that jira does not know.
C25_AssociationIndependentOfGuards ==
  /\ outcomes # << >> =>
       /\ \A c \in Changes :
            Cardinality(PairsDone(c)) = PairTotal[c]
            => /\ IssuesOf(gerrit_jira_map, c) = KnownKeysOf[c]
               /\ IssuesOf(session, c) = KnownKeysOf[c]
       /\ \A n \in 1..Len(outcomes) :
            LET row == [ issue |-> outcomes[n].issue,
                         changeid |-> outcomes[n].change ]
            IN IF outcomes[n].issue \in KnownIssues
               THEN /\ outcomes[n].result \in GuardSkips \cup { "logged" }
                    /\ Holds(gerrit_jira_map, row)
                    /\ Holds(session, row)
               ELSE /\ outcomes[n].result = "not an issue"
                    /\ ~Holds(gerrit_jira_map, row)
                    /\ ~Holds(session, row)
  /\ \A i \in 1..Len(gerrit_jira_map) :
       gerrit_jira_map[i].issue \in KnownIssues
  /\ \A i \in 1..Len(session) : session[i].issue \in KnownIssues

\* C25 witness: a dry run ran the three pairs of I2, in review, over a
\* store that had the row of P-1 with I1 alone: the pair of P-1 ended at the
\* multi-association guard, that of Q-1 at another guard and P-9 is no
\* issue, and the store associates I2 with P-1 and Q-1
C25_Witness ==
  /\ dry_run
  /\ map0 = << [ issue |-> P1, changeid |-> "I1" ] >>
  /\ Cardinality(PairsDone("I2")) = 3
  /\ IssuesOf(gerrit_jira_map, "I2") = { P1, Q1 }
  /\ \E n \in PairsDone("I2") :
       /\ outcomes[n].issue = P1
       /\ outcomes[n].result = "multiple active commits"
  /\ \E n \in PairsDone("I2") :
       /\ outcomes[n].issue = Q1
       /\ outcomes[n].result \in GuardSkips
  /\ \E n \in PairsDone("I2") :
       /\ outcomes[n].issue = P9
       /\ outcomes[n].result = "not an issue"

\* the positions in the list of changes taken by the running (or last)
\* command of two changes, the first before the second, neither abandoned
TakenInOrder(first, second) ==
  \E a, b \in 1..Len(processed) :
    /\ a < b
    /\ processed[a].change_id = first /\ processed[a].status # "ABANDONED"
    /\ processed[b].change_id = second /\ processed[b].status # "ABANDONED"

\* the transitions of an issue that the running (or last) command asked for
TransitionsOf(key) == { i \in TransitionCalls : calls[i].issue = key }

\* the keys that the messages of two changes both name and jira knows
SharedKeys ==
  [ first \in Changes |-> [ second \in Changes |->
      (KeysOf(first) \cap KeysOf(second)) \cap KnownIssues ] ]

\* C26: the multi-association guard depends on the order within a run.
\* When a command takes two changes that are not abandoned, one after the
\* other, that both name an issue X that had no row when the command
\* started, every pair of X with the first change finds one row, the pair of
\* X with the second finds two and ends without a transition, jira is asked
\* for a transition of X by the first change only, and at most once.
C26_FirstChangeOnly ==
  \A b \in 2..Len(processed) : \A a \in 1..(b - 1) :
    LET first  == processed[a].change_id
        second == processed[b].change_id
    IN
    (processed[a].status # "ABANDONED" /\ processed[b].status # "ABANDONED")
    => \A key \in SharedKeys[first][second] :
         RowsOf(map0, key) = {}
         => /\ \A n \in 1..Len(outcomes) :
                 outcomes[n].issue = key
                 => IF outcomes[n].change = first
                    THEN outcomes[n].rows = 1
                    ELSE /\ outcomes[n].rows = 2
                         /\ outcomes[n].result \in GuardSkips
            /\ \A i \in 1..Len(calls) :
                 calls[i].issue = key
                 => calls[i].change = first /\ calls[i].rows = 1
            /\ Cardinality(TransitionsOf(key)) <= 1

\* C26 witness: a command took I2 and then I1, P-1 had no row before, jira
\* was asked for a transition of P-1 for I2, and the pair of P-1 with I1
\* found two rows
C26_Witness ==
  /\ TakenInOrder("I2", "I1")
  /\ RowsOf(map0, P1) = {}
  /\ \E i \in TransitionsOf(P1) : calls[i].change = "I2" /\ calls[i].ok
  /\ \E n \in 1..Len(outcomes) :
       /\ outcomes[n].issue = P1
       /\ outcomes[n].change = "I1"
       /\ outcomes[n].rows = 2

\* C27: the SUCCESS records tile time.  Of two status 0 records of
\* poll_history with no status 0 record between them, in insertion order,
\* the later starts where the earlier ends and does not end before it,
\* whatever status -1 records and whatever commands that write no record
\* lie between them.
C27_SuccessRecordsTile ==
  \A j \in 2..Len(poll_history) : \A i \in 1..(j - 1) :
    ( /\ poll_history[i].status = 0
      /\ poll_history[j].status = 0
      /\ \A k \in (i + 1)..(j - 1) : poll_history[k].status # 0 )
    => /\ poll_history[j].period_start = poll_history[i].period_end
       /\ poll_history[i].period_end <= poll_history[j].period_end

\* C27 witness: the record of an aborted poll lies between two status 0
\* records, and the period of the later one is not empty
C27_Witness ==
  /\ Len(poll_history) = 3
  /\ poll_history[1].status = 0
  /\ poll_history[2].status = -1
  /\ poll_history[3].status = 0
  /\ poll_history[3].period_start = poll_history[1].period_end
  /\ poll_history[2].period_start = poll_history[1].period_end
  /\ poll_history[3].period_end > poll_history[2].period_end

====
